---- MODULE Spec2Model ----
(***************************************************************************)
(* Model of the OpenRCT2 plugin library "Persistence": the name codec,     *)
(* the path algebra and the JsonFileSystem engine of                       *)
(* src/src/JsonFileSystem.ts, on top of the host's shared plugin storage.  *)
(*                                                                         *)
(* Strings are sequences of one-character strings.  A JSON value of the    *)
(* shared storage is undefined, a scalar, or an object that maps property  *)
(* names to JSON values.                                                   *)
(***************************************************************************)
EXTENDS Integers, Sequences, FiniteSets, TLC

\* ---------------------------------------------------------------- bounds

\* longest name handed to the codec
MaxLen == 2
\* deepest path handed to the file system (segments below the root)
MaxDepth == 2
\* most nodes (root included) the store may hold
MaxNodes == 4
\* most watchers registered at a time
MaxWatchers == 1
\* most watch calls of the client that keeps the handles
MaxRegs == 3
\* most callbacks of the client whose callback calls back
MaxHooks == 2

\* ------------------------------------------------------- string helpers

\* the first index i >= from (0-based) at which search occurs, or -1
RECURSIVE scanUp(_, _, _)
scanUp(text, search, from) ==
    IF from + Len(search) > Len(text) THEN -1
    ELSE IF SubSeq(text, from + 1, from + Len(search)) = search THEN from
    ELSE scanUp(text, search, from + 1)

\* the last index i <= from (0-based) at which search occurs, or -1
RECURSIVE scanDown(_, _, _)
scanDown(text, search, from) ==
    IF from < 0 THEN -1
    ELSE IF SubSeq(text, from + 1, from + Len(search)) = search THEN from
    ELSE scanDown(text, search, from - 1)

\* String.prototype.indexOf: 0-based index of the first occurrence, or -1
indexOf(text, search) == scanUp(text, search, 0)

\* String.prototype.lastIndexOf: 0-based index of the last occurrence, or -1
lastIndexOf(text, search) == scanDown(text, search, Len(text) - Len(search))

\* String.prototype.slice(from) and slice(from, to), 0-based, to exclusive
sliceFrom(text, from) == SubSeq(text, from + 1, Len(text))
slice(text, from, to) == SubSeq(text, from + 1, to)

\* String.prototype.split with a non-empty separator
RECURSIVE split(_, _)
split(text, search) ==
    LET idx == indexOf(text, search)
    IN IF idx = -1
       THEN << text >>
       ELSE << slice(text, 0, idx) >>
               \o split(sliceFrom(text, idx + Len(search)), search)

\* Array.prototype.join
RECURSIVE join(_, _)
join(parts, glue) ==
    IF Len(parts) = 0 THEN << >>
    ELSE IF Len(parts) = 1 THEN parts[1]
    ELSE parts[1] \o glue \o join(Tail(parts), glue)

\* ----------------------------------------------------------- name codec

escape(char) == << "\\" >> \o char

replaceAll(text, search, replacement) == join(split(text, search), replacement)

\* encode that escapes nothing
encode_plain(text) == text

encode(text) ==
    IF text = << >>
    THEN escape(<< >>)
    ELSE LET t1 == replaceAll(text, escape(<< >>), escape(escape(<< >>)))
             t2 == replaceAll(t1, << "." >>, escape(<< "d" >>))
             t3 == replaceAll(t2, << "/" >>, escape(<< "s" >>))
         IN t3

decode(text) ==
    IF text = escape(<< >>)
    THEN << >>
    ELSE LET t1 == replaceAll(text, escape(<< "s" >>), << "/" >>)
             t2 == replaceAll(t1, escape(<< "d" >>), << "." >>)
             t3 == replaceAll(t2, escape(escape(<< >>)), escape(<< >>))
         IN t3

\* --------------------------------------------------------- path algebra

\* the value of `string | undefined` that is undefined
NoPath == << "undefined" >>

getName(path) == decode(sliceFrom(path, lastIndexOf(path, << "." >>) + 1))

getParent(path) ==
    LET idx == lastIndexOf(path, << "." >>)
    IN IF idx < 0 THEN NoPath ELSE slice(path, 0, idx)

getChild(parent, name) == parent \o << "." >> \o encode(name)

\* names given to rename and to getChild on the root
Names == { << "a" >>, << "a", "b" >> }

\* names given to getChild below the root's children
DeepNames == { << "a" >> }

\* the paths a client obtains from getRoot and getChild
RECURSIVE PathsTo(_)
PathsTo(depth) ==
    IF depth = 0 THEN { << >> }
    ELSE LET shorter == PathsTo(depth - 1)
         IN shorter \cup
            { getChild(p, n) : p \in shorter,
                               n \in IF depth = 1 THEN Names ELSE DeepNames }

Paths == PathsTo(MaxDepth)

\* ---------------------------------------------------- JSON value helpers
\* A JSON value is undefined, a scalar, or an object: a function from
\* property names to JSON values.

Undefined == [ kind |-> "undefined" ]
Scalar(v) == [ kind |-> "scalar", value |-> v ]

\* the object literal { name: props[name], ... }; a property that is
\* undefined is not stored
Object(props) ==
    [ kind  |-> "object",
      props |-> [ n \in { n \in DOMAIN props : props[n] # Undefined } |-> props[n] ] ]

EmptyObject == Object(<< >>)

\* element.name
Prop(element, name) ==
    IF element.kind = "object" /\ name \in DOMAIN element.props
    THEN element.props[name]
    ELSE Undefined

\* Object.keys(value)
ObjectKeys(value) == IF value.kind = "object" THEN DOMAIN value.props ELSE {}

IsPrefix(a, b) == Len(a) <= Len(b) /\ SubSeq(b, 1, Len(a)) = a

\* path is base or lies below it, segment by segment
Within(path, base) == path = base \/ IsPrefix(base \o << "." >>, path)

TYPE == << "t", "y", "p", "e" >>
FILES == << "f", "i", "l", "e", "s" >>
CONTENT == << "c", "o", "n", "t", "e", "n", "t" >>

\* ------------------------------------------- shared storage of the host
\* context.sharedStorage addresses a tree of JSON objects by dotted keys.
\* get walks the key and yields undefined when a step is missing; set
\* creates the objects missing on the way to the key, and set(key,
\* undefined) removes the key together with everything below it.

\* a dotted key, split into the property names it walks
keyList(key) == split(key, << "." >>)

\* get, has and set take the key split by keyList
RECURSIVE get(_, _)
get(S, key) ==
    IF key = << >> THEN S
    ELSE get(Prop(S, Head(key)), Tail(key))

has(S, key) == get(S, key) # Undefined

RECURSIVE set(_, _, _)
set(S, key, value) ==
    LET props == IF S.kind = "object" THEN S.props ELSE << >>
        name  == Head(key)
    IN Object([ n \in DOMAIN props \cup { name } |->
                  IF n # name THEN props[n]
                  ELSE IF Len(key) = 1 THEN value
                  ELSE set(Prop(S, name), Tail(key), value) ])

\* ------------------------------------------------------- JsonFileSystem

VARIABLES
    storage,    \* context.sharedStorage: the JSON tree of plugin.store.json
    watchers,   \* this.watchers: the registered callbacks, in order
    calls,      \* the watcher invocations made by the last call, in order
    pre,        \* the storage on entry of the last call
    last,       \* the last call: operation, arguments and return value
    track,      \* the copy a client follows up on: src, dst, storage before it
    codec,      \* a client of the codec and the path algebra
    alias,      \* a client that changes the object getData gave it
    twin,       \* a client that builds two children and compares them
    regs,       \* the watch calls made so far and the handles called so far
    scripts,    \* what the registered callbacks do when they are invoked
    trace       \* the writes of the last call and what its watchers found

vars == << storage, watchers, calls, pre, last, track, codec, alias, twin,
          regs, scripts, trace >>

\* this.namespace, as in new JsonFileSystem("n.s")
namespace == << "n", ".", "s" >>

\* JS truthiness of a `string | undefined`
truthy(s) == s # NoPath /\ s # << >>

\* storage elements
StorageFolder == Object(TYPE :> Scalar("folder") @@ FILES :> EmptyObject)
StorageFile(content) == Object(TYPE :> Scalar("file") @@ CONTENT :> Scalar(content))

\* path.replace(/\./g, ".files.")
getKey(path) ==
    namespace \o replaceAll(path, << "." >>, << "." >> \o FILES \o << "." >>)

\* the split keys of the client's paths, computed once
clientKeys == [ path \in Paths |-> keyList(getKey(path)) ]

\* this.getKey(path), split
splitKey(path) ==
    IF path \in Paths THEN clientKeys[path] ELSE keyList(getKey(path))

\* An operation runs on m and yields [m, ret]. m holds the store and the
\* watchers array, and with them the record of the call: its writes, the
\* callbacks it has invoked (calls), what each of them found (seen), the
\* bodies of the callbacks (react), how deep in callbacks the call is and
\* the write whose watchers are running (cur).
getElement(m, path) == get(m.storage, splitKey(path))

watch(ws, watcher) == Append(ws, watcher)

\* the closure returned by watch(watcher)
unwatch(ws, watcher) ==
    LET hits == { i \in 1..Len(ws) : ws[i] = watcher }
    IN IF hits = {} THEN ws
       ELSE LET idx == CHOOSE i \in hits : \A j \in hits : i <= j
            IN SubSeq(ws, 1, idx - 1) \o SubSeq(ws, idx + 1, Len(ws))

\* a callback that only returns
Passive == [ op |-> "none", path |-> NoPath, content |-> "", watcher |-> "" ]

RECURSIVE setElement(_, _, _), createFile(_, _, _), delete(_, _)

\* watcher(path): the callback finds the store as it is now and runs its
\* body, which may call back into the file system, once
invoke(m, watcher, path) ==
    LET body == m.react[watcher]
        m1 == [ m EXCEPT !.calls = Append(@, [ watcher |-> watcher, path |-> path ]),
                         !.seen = Append(@, [ storage |-> m.storage,
                                              write   |-> m.cur ]) ]
        m2 == [ m1 EXCEPT !.react[watcher] = Passive, !.depth = @ + 1 ]
        m3 == CASE body.op = "createFile" ->
                       createFile(m2, body.path, body.content).m
                [] body.op = "delete" -> delete(m2, body.path).m
                [] body.op = "unwatch" ->
                       [ m2 EXCEPT !.watchers = unwatch(@, body.watcher) ]
                [] OTHER -> m2
    IN IF body.op = "none" THEN m1 ELSE [ m3 EXCEPT !.depth = m.depth ]

\* this.watchers.forEach(watcher => watcher(path)) from index k on: the
\* length is read before the first callback, and an index that the array
\* has lost by then is passed over
RECURSIVE forEach(_, _, _, _)
forEach(m, path, k, len) ==
    IF k > len THEN m
    ELSE IF k > Len(m.watchers) THEN forEach(m, path, k + 1, len)
    ELSE forEach(invoke(m, m.watchers[k], path), path, k + 1, len)

\* setElement that runs the watchers before it writes
setElement_early(m, path, element) ==
    LET key == splitKey(path)
        unwritten == [ m EXCEPT !.writes = Append(@, [ path  |-> path,
                                                       depth |-> m.depth,
                                                       over  |-> has(m.storage, key),
                                                       after |-> m.storage ]),
                                !.cur = Len(m.writes) + 1 ]
        told == forEach(unwritten, path, 1, Len(m.watchers))
    IN [ told EXCEPT !.storage = set(@, key, element), !.cur = m.cur ]

setElement(m, path, element) ==
    LET key == splitKey(path)
        after == set(m.storage, key, element)
        written == [ m EXCEPT !.storage = after,
                              !.writes = Append(@, [ path  |-> path,
                                                     depth |-> m.depth,
                                                     over  |-> has(m.storage, key),
                                                     after |-> after ]),
                              !.cur = Len(m.writes) + 1 ]
    IN [ forEach(written, path, 1, Len(m.watchers)) EXCEPT !.cur = m.cur ]

exists(m, path) == has(m.storage, splitKey(path))

isFolder(m, path) ==
    IF ~exists(m, path) THEN FALSE
    ELSE LET element == getElement(m, path)
         IN element # Undefined /\ Prop(element, TYPE) = Scalar("folder")

isFile(m, path) ==
    IF ~exists(m, path) THEN FALSE
    ELSE LET element == getElement(m, path)
         IN element # Undefined /\ Prop(element, TYPE) = Scalar("file")

\* the value of `string[] | undefined` that is undefined
NoChildren == << NoPath >>

\* the property names as `for (const name in object)` visits them: each
\* once, in an order the callers do not rely on
RECURSIVE forIn(_)
forIn(names) ==
    IF names = {} THEN << >>
    ELSE LET name == CHOOSE n \in names : TRUE
         IN << name >> \o forIn(names \ { name })

\* getChildren that does not look whether the path is a folder
getChildren_unchecked(m, path) ==
    LET element == getElement(m, path)
    IN IF element = Undefined THEN NoChildren
       ELSE LET names == forIn(ObjectKeys(Prop(element, FILES)))
            IN [ i \in 1..Len(names) |-> path \o << "." >> \o names[i] ]

\* the list of the returned paths, or NoChildren
getChildren(m, path) ==
    IF ~isFolder(m, path) THEN NoChildren
    ELSE LET element == getElement(m, path)
         IN IF element = Undefined THEN NoChildren
            ELSE LET names == forIn(ObjectKeys(Prop(element, FILES)))
                 IN [ i \in 1..Len(names) |-> path \o << "." >> \o names[i] ]

\* the content, or Undefined
getData(m, path) ==
    IF ~isFile(m, path) THEN Undefined
    ELSE LET element == getElement(m, path)
         IN IF element = Undefined THEN Undefined ELSE Prop(element, CONTENT)

RECURSIVE createFolder(_, _)

\* createFolder that does not look whether a node is at the path
createFolder_unchecked(m, path) ==
    LET parent == getParent(path)
        m1 == IF truthy(parent) THEN createFolder(m, parent).m ELSE m
    IN [ m |-> setElement(m1, path, StorageFolder), ret |-> TRUE ]

createFolder(m, path) ==
    IF exists(m, path) THEN [ m |-> m, ret |-> FALSE ]
    ELSE LET parent == getParent(path)
             m1 == IF truthy(parent) THEN createFolder(m, parent).m ELSE m
         IN [ m |-> setElement(m1, path, StorageFolder), ret |-> TRUE ]

\* createFile that does not look whether a node is at the path
createFile_unchecked(m, path, content) ==
    LET parent == getParent(path)
        m1 == IF truthy(parent) THEN createFolder(m, parent).m ELSE m
    IN [ m |-> setElement(m1, path, StorageFile(content)), ret |-> TRUE ]

createFile(m, path, content) ==
    IF exists(m, path) THEN [ m |-> m, ret |-> FALSE ]
    ELSE LET parent == getParent(path)
             m1 == IF truthy(parent) THEN createFolder(m, parent).m ELSE m
         IN [ m |-> setElement(m1, path, StorageFile(content)), ret |-> TRUE ]

\* delete that writes and notifies before it looks whether the path exists
delete_unchecked(m, path) ==
    [ m |-> setElement(m, path, Undefined), ret |-> exists(m, path) ]

\* delete that empties the node instead of removing it
delete_emptied(m, path) ==
    IF ~exists(m, path) THEN [ m |-> m, ret |-> FALSE ]
    ELSE [ m |-> setElement(m, path, EmptyObject), ret |-> TRUE ]

\* setElement(path, undefined) for each path of a list
RECURSIVE deleteAll(_, _)
deleteAll(m, paths) ==
    IF paths = << >> THEN m
    ELSE deleteAll(setElement(m, Head(paths), Undefined), Tail(paths))

\* delete that removes the children one by one before the node
delete_each(m, path) ==
    IF ~exists(m, path) THEN [ m |-> m, ret |-> FALSE ]
    ELSE LET children == getChildren(m, path)
             m1 == IF children = NoChildren THEN m ELSE deleteAll(m, children)
         IN [ m |-> setElement(m1, path, Undefined), ret |-> TRUE ]

delete(m, path) ==
    IF ~exists(m, path) THEN [ m |-> m, ret |-> FALSE ]
    ELSE [ m |-> setElement(m, path, Undefined), ret |-> TRUE ]

RECURSIVE deepCopy(_)
deepCopy(element) ==
    IF Prop(element, TYPE) = Scalar("file")
    THEN Object(TYPE :> Scalar("file") @@ CONTENT :> Prop(element, CONTENT))
    ELSE LET files == Prop(element, FILES)
         IN Object(TYPE :> Scalar("folder") @@
                   FILES :> Object([ key \in ObjectKeys(files) |->
                                       deepCopy(Prop(files, key)) ]))

\* copy that does not look whether a node is at dst
copy_overwriting(m, src, dst) ==
    IF ~exists(m, src) THEN [ m |-> m, ret |-> FALSE ]
    ELSE LET element == getElement(m, src)
         IN IF element = Undefined THEN [ m |-> m, ret |-> FALSE ]
            ELSE [ m |-> setElement(m, dst, deepCopy(element)), ret |-> TRUE ]

copy(m, src, dst) ==
    IF ~exists(m, src) \/ exists(m, dst) THEN [ m |-> m, ret |-> FALSE ]
    ELSE LET element == getElement(m, src)
         IN IF element = Undefined THEN [ m |-> m, ret |-> FALSE ]
            ELSE [ m |-> setElement(m, dst, deepCopy(element)), ret |-> TRUE ]

\* move whose delete step writes without running the watchers
move_quiet(m, src, dst) ==
    IF isFolder(m, src) /\ indexOf(dst, src) # -1
    THEN [ m |-> m, ret |-> FALSE ]
    ELSE LET c == copy(m, src, dst)
         IN IF ~c.ret THEN c
            ELSE [ m   |-> [ c.m EXCEPT !.storage = set(@, splitKey(src), Undefined) ],
                   ret |-> exists(c.m, src) ]

\* move without the check of dst against src
move_unchecked(m, src, dst) ==
    LET c == copy(m, src, dst)
    IN IF ~c.ret THEN c ELSE delete(c.m, src)

\* move that takes the copy back when its delete step fails
move_rollback(m, src, dst) ==
    IF isFolder(m, src) /\ indexOf(dst, src) # -1
    THEN [ m |-> m, ret |-> FALSE ]
    ELSE LET c == copy(m, src, dst)
         IN IF ~c.ret THEN c
            ELSE LET d == delete(c.m, src)
                 IN IF d.ret THEN d
                    ELSE [ m |-> delete(d.m, dst).m, ret |-> FALSE ]

move(m, src, dst) ==
    IF isFolder(m, src) /\ indexOf(dst, src) # -1
    THEN [ m |-> m, ret |-> FALSE ]
    ELSE LET c == copy(m, src, dst)
         IN IF ~c.ret THEN c ELSE delete(c.m, src)

rename(m, path, name) ==
    LET parent == getParent(path)
    IN IF parent = NoPath THEN [ m |-> m, ret |-> FALSE ]
       ELSE move(m, path, getChild(parent, name))

setData(m, path, content) ==
    IF ~isFile(m, path) THEN [ m |-> m, ret |-> FALSE ]
    ELSE [ m |-> setElement(m, path, StorageFile(content)), ret |-> TRUE ]

getRoot(m) == [ m |-> createFolder(m, << >>).m, ret |-> << >> ]

\* ------------------------------------------------------ inputs of a run

\* file contents
Contents == { "x", "y" }

\* watcher callbacks
Callbacks == { "w1" }

\* the callbacks of the clients that register more than one
Watchers == { "w1", "w2" }

\* the characters of the names given to the codec
Alphabet == { "a", "d", "s", ".", "/", "\\" }

RECURSIVE StringsTo(_)
StringsTo(len) ==
    IF len = 0 THEN { << >> }
    ELSE LET shorter == StringsTo(len - 1)
         IN shorter \cup { Append(t, c) : t \in shorter, c \in Alphabet }

Strings == StringsTo(MaxLen)

\* the parents the codec client builds children of
CodecParents == { << >>, getChild(<< >>, << "a" >>) }

\* the paths of the nodes at and below an element that lives at path
RECURSIVE nodesBelow(_, _)
nodesBelow(element, path) ==
    LET files == Prop(element, FILES)
    IN { path } \cup
       UNION { nodesBelow(Prop(files, n), path \o << "." >> \o n) :
                 n \in ObjectKeys(files) }

\* the paths of the nodes a storage holds
StoredPaths(S) ==
    LET root == get(S, keyList(namespace))
    IN IF root = Undefined THEN {} ELSE nodesBelow(root, << >>)

NodeCount(S) == Cardinality(StoredPaths(S))

\* ------------------------------------------------------------- the run

NoCall == [ op |-> "none", path |-> NoPath, dst |-> NoPath, name |-> << >>,
            content |-> "", watcher |-> "", ret |-> FALSE ]

NoTrack == [ on |-> FALSE, src |-> NoPath, dst |-> NoPath, snap |-> EmptyObject ]

IdleCodec == [ pc |-> "idle", parent |-> << >>, text |-> << >>, token |-> << >>,
               back |-> << >>, path |-> << >>, name |-> << >> ]

IdleAlias == [ pc |-> "idle", host |-> "", path |-> NoPath, heap |-> << >>,
               got |-> "", first |-> "", second |-> "" ]

\* no watch call made
NoRegs == [ issued |-> << >>, called |-> {} ]

\* every callback only returns
NoScripts == [ hooked |-> FALSE, of |-> [ watcher \in Watchers |-> Passive ] ]

NoTrace == [ writes |-> << >>, seen |-> << >> ]

IdleTwin == [ pc |-> "idle", p1 |-> << >>, n1 |-> << >>, p2 |-> << >>,
              n2 |-> << >>, c1 |-> NoPath, c2 |-> NoPath, parent |-> NoPath ]

Init ==
    /\ storage = EmptyObject
    /\ watchers = << >>
    /\ calls = << >>
    /\ pre = EmptyObject
    /\ last = NoCall
    /\ track = NoTrack
    /\ codec = IdleCodec
    /\ alias = IdleAlias
    /\ twin = IdleTwin
    /\ regs = NoRegs
    /\ scripts = NoScripts
    /\ trace = NoTrace

\* the state on entry of a call
Entry ==
    [ storage |-> storage, watchers |-> watchers, react |-> scripts.of,
      calls |-> << >>, seen |-> << >>, writes |-> << >>, depth |-> 0,
      cur |-> 0 ]

\* a call that returned r, recorded as call
Return(r, call) ==
    /\ NodeCount(r.m.storage) <= MaxNodes
    /\ storage' = r.m.storage
    /\ calls' = r.m.calls
    /\ watchers' = r.m.watchers
    /\ scripts' = [ scripts EXCEPT !.of = r.m.react ]
    /\ trace' = [ writes |-> r.m.writes, seen |-> r.m.seen ]
    /\ pre' = storage
    /\ last' = call
    /\ UNCHANGED << track, codec, alias, twin, regs >>

\* the client is between two calls, and follows up on no copy
Idle == last = NoCall /\ ~track.on

GetRoot ==
    /\ Idle
    /\ \E r \in { getRoot(Entry) } :
          Return(r, [ NoCall EXCEPT !.op = "getRoot", !.path = r.ret, !.ret = TRUE ])

CreateFolder ==
    /\ Idle
    /\ \E path \in Paths :
          \E r \in { createFolder(Entry, path) } :
             Return(r, [ NoCall EXCEPT !.op = "createFolder", !.path = path,
                                       !.ret = r.ret ])

CreateFile ==
    /\ Idle
    /\ \E path \in Paths, content \in Contents :
          \E r \in { createFile(Entry, path, content) } :
             Return(r, [ NoCall EXCEPT !.op = "createFile", !.path = path,
                                       !.content = content, !.ret = r.ret ])

Delete ==
    /\ Idle
    /\ \E path \in Paths :
          \E r \in { delete(Entry, path) } :
             Return(r, [ NoCall EXCEPT !.op = "delete", !.path = path,
                                       !.ret = r.ret ])

Copy ==
    /\ Idle
    /\ \E src \in Paths, dst \in Paths :
          \E r \in { copy(Entry, src, dst) } :
             Return(r, [ NoCall EXCEPT !.op = "copy", !.path = src, !.dst = dst,
                                       !.ret = r.ret ])

Move ==
    /\ Idle
    /\ \E src \in Paths, dst \in Paths :
          \E r \in { move(Entry, src, dst) } :
             Return(r, [ NoCall EXCEPT !.op = "move", !.path = src, !.dst = dst,
                                       !.ret = r.ret ])

Rename ==
    /\ Idle
    /\ \E path \in Paths, name \in Names :
          \E r \in { rename(Entry, path, name) } :
             Return(r, [ NoCall EXCEPT !.op = "rename", !.path = path,
                                       !.name = name, !.ret = r.ret ])

SetData ==
    /\ Idle
    /\ \E path \in Paths, content \in Contents :
          \E r \in { setData(Entry, path, content) } :
             Return(r, [ NoCall EXCEPT !.op = "setData", !.path = path,
                                       !.content = content, !.ret = r.ret ])

Watch ==
    \E watcher \in Callbacks :
        /\ Idle
        /\ Len(watchers) < MaxWatchers
        /\ watchers' = watch(watchers, watcher)
        /\ calls' = << >>
        /\ pre' = storage
        /\ last' = [ NoCall EXCEPT !.op = "watch", !.watcher = watcher, !.ret = TRUE ]
        /\ UNCHANGED << storage, track, codec, alias, twin, regs, scripts,
                        trace >>

Unwatch ==
    \E i \in 1..Len(watchers) :
        /\ Idle
        /\ watchers' = unwatch(watchers, watchers[i])
        /\ calls' = << >>
        /\ pre' = storage
        /\ last' = [ NoCall EXCEPT !.op = "unwatch", !.watcher = watchers[i],
                                   !.ret = TRUE ]
        /\ UNCHANGED << storage, track, codec, alias, twin, regs, scripts,
                        trace >>

\* the client has looked at the result of the last call and goes on
Resume ==
    /\ last # NoCall
    /\ last' = NoCall
    /\ calls' = << >>
    /\ pre' = EmptyObject
    /\ trace' = NoTrace
    /\ UNCHANGED << storage, watchers, track, codec, alias, twin, regs,
                    scripts >>

Next ==
    \/ Resume
    \/ GetRoot
    \/ CreateFolder
    \/ CreateFile
    \/ Delete
    \/ Copy
    \/ Move
    \/ Rename
    \/ SetData
    \/ Watch
    \/ Unwatch

Spec == Init /\ [][Next]_vars

\* ------------------- a client that copies and then works on the source
\* The client builds a tree by creating and deleting, makes a copy that
\* succeeds and from then on only calls setData and delete on src and the
\* paths below it.

CopyTracked ==
    /\ Idle
    /\ \E src \in Paths, dst \in Paths :
          \E r \in { copy(Entry, src, dst) } :
             /\ r.ret
             /\ NodeCount(r.m.storage) <= MaxNodes
             /\ storage' = r.m.storage
             /\ calls' = r.m.calls
             /\ pre' = storage
             /\ last' = [ NoCall EXCEPT !.op = "copy", !.path = src, !.dst = dst,
                                        !.ret = TRUE ]
             /\ track' = [ on |-> TRUE, src |-> src, dst |-> dst, snap |-> storage ]
             /\ UNCHANGED << watchers, codec, alias, twin, regs, scripts,
                             trace >>

DeleteBelowSrc ==
    /\ last = NoCall
    /\ track.on
    /\ \E path \in { p \in Paths : Within(p, track.src) } :
          \E r \in { delete(Entry, path) } :
             Return(r, [ NoCall EXCEPT !.op = "delete", !.path = path,
                                       !.ret = r.ret ])

SetDataBelowSrc ==
    /\ last = NoCall
    /\ track.on
    /\ \E path \in { p \in Paths : Within(p, track.src) }, content \in Contents :
          \E r \in { setData(Entry, path, content) } :
             Return(r, [ NoCall EXCEPT !.op = "setData", !.path = path,
                                       !.content = content, !.ret = r.ret ])

NextCopy ==
    \/ Resume
    \/ GetRoot
    \/ CreateFolder
    \/ CreateFile
    \/ Delete
    \/ CopyTracked
    \/ DeleteBelowSrc
    \/ SetDataBelowSrc

SpecCopy == Init /\ [][NextCopy]_vars

\* ------------------------------------- a client of the codec on its own

InitCodec ==
    /\ storage = EmptyObject
    /\ watchers = << >>
    /\ calls = << >>
    /\ pre = EmptyObject
    /\ last = NoCall
    /\ track = NoTrack
    /\ alias = IdleAlias
    /\ twin = IdleTwin
    /\ regs = NoRegs
    /\ scripts = NoScripts
    /\ trace = NoTrace
    /\ \E text \in Strings, parent \in CodecParents :
          codec = [ IdleCodec EXCEPT !.pc = "start", !.text = text,
                                     !.parent = parent ]

Fs == << storage, watchers, calls, pre, last, track, alias, twin, regs, scripts, trace >>

Encode ==
    /\ codec.pc = "start"
    /\ codec' = [ codec EXCEPT !.pc = "encoded", !.token = encode(codec.text) ]
    /\ UNCHANGED Fs

Decode ==
    /\ codec.pc = "encoded"
    /\ codec' = [ codec EXCEPT !.pc = "decoded", !.back = decode(codec.token) ]
    /\ UNCHANGED Fs

GetChild ==
    /\ codec.pc = "decoded"
    /\ codec' = [ codec EXCEPT !.pc = "child",
                               !.path = getChild(codec.parent, codec.text) ]
    /\ UNCHANGED Fs

GetName ==
    /\ codec.pc = "child"
    /\ codec' = [ codec EXCEPT !.pc = "named", !.name = getName(codec.path) ]
    /\ UNCHANGED Fs

NextCodec ==
    \/ Encode
    \/ Decode
    \/ GetChild
    \/ GetName

SpecCodec == InitCodec /\ [][NextCodec]_vars

\* ------------------------- a client that changes what getData returned
\* A file's content is an object here: the storage holds the object's name
\* and alias.heap its state.  getData returns element.content as the
\* host's get delivered it; the host hands out the stored object itself or
\* a copy of it.

Hosts == { "reference", "copy" }

\* context.sharedStorage.get on a stored object
hostGet(host, heap, object) ==
    IF host = "reference"
    THEN [ heap |-> heap, object |-> object ]
    ELSE [ heap |-> heap @@ ("o2" :> heap[object]), object |-> "o2" ]

InitAlias ==
    /\ storage = EmptyObject
    /\ watchers = << >>
    /\ calls = << >>
    /\ pre = EmptyObject
    /\ last = NoCall
    /\ track = NoTrack
    /\ codec = IdleCodec
    /\ twin = IdleTwin
    /\ regs = NoRegs
    /\ scripts = NoScripts
    /\ trace = NoTrace
    /\ \E host \in Hosts, path \in Paths, state \in Contents :
          alias = [ IdleAlias EXCEPT !.pc = "start", !.host = host, !.path = path,
                                     !.heap = "o1" :> state ]

\* createFile(path, o1)
AliasCreateFile ==
    /\ alias.pc = "start"
    /\ \E r \in { createFile(Entry, alias.path, "o1") } :
          /\ r.ret
          /\ storage' = r.m.storage
          /\ calls' = r.m.calls
          /\ pre' = storage
          /\ last' = [ NoCall EXCEPT !.op = "createFile", !.path = alias.path,
                                     !.content = "o1", !.ret = TRUE ]
    /\ alias' = [ alias EXCEPT !.pc = "created" ]
    /\ UNCHANGED << watchers, track, codec, twin, regs, scripts, trace >>

\* data = getData(path); the client reads it
AliasGetData ==
    /\ alias.pc = "created"
    /\ \E h \in { hostGet(alias.host, alias.heap,
                          getData(Entry,
                                  alias.path).value) } :
          alias' = [ alias EXCEPT !.pc = "got", !.heap = h.heap, !.got = h.object,
                                  !.first = h.heap[h.object] ]
    /\ UNCHANGED << storage, watchers, calls, pre, last, track, codec, twin,
                    regs, scripts, trace >>

\* the client assigns to the object it got
AliasMutate ==
    /\ alias.pc = "got"
    /\ \E state \in Contents :
          alias' = [ alias EXCEPT !.pc = "mutated", !.heap[alias.got] = state ]
    /\ UNCHANGED << storage, watchers, calls, pre, last, track, codec, twin,
                    regs, scripts, trace >>

\* getData(path) once more; the client reads it
AliasGetAgain ==
    /\ alias.pc = "mutated"
    /\ \E h \in { hostGet(alias.host, alias.heap,
                          getData(Entry,
                                  alias.path).value) } :
          alias' = [ alias EXCEPT !.pc = "again", !.heap = h.heap,
                                  !.second = h.heap[h.object] ]
    /\ UNCHANGED << storage, watchers, calls, pre, last, track, codec, twin,
                    regs, scripts, trace >>

NextAlias ==
    \/ AliasCreateFile
    \/ AliasGetData
    \/ AliasMutate
    \/ AliasGetAgain

SpecAlias == InitAlias /\ [][NextAlias]_vars

\* ----------------------------------------- a client of the Path wrapper
\* A Path is a file system with a path string; its methods hand the string
\* to the file system.  addFolder and addFile return the child's path, or
\* NoPath for undefined.

addFolder(m, path, name) ==
    LET child == getChild(path, name)
        r == createFolder(m, child)
    IN [ m |-> r.m, ret |-> IF r.ret THEN child ELSE NoPath ]

addFile(m, path, name, content) ==
    LET child == getChild(path, name)
        r == createFile(m, child, content)
    IN [ m |-> r.m, ret |-> IF r.ret THEN child ELSE NoPath ]

AddFolder ==
    /\ Idle
    /\ \E path \in Paths, name \in Names :
          \E r \in { addFolder(Entry, path, name) } :
             Return(r, [ NoCall EXCEPT !.op = "addFolder", !.path = path,
                                       !.name = name, !.dst = r.ret,
                                       !.ret = r.ret # NoPath ])

AddFile ==
    /\ Idle
    /\ \E path \in Paths, name \in Names, content \in Contents :
          \E r \in { addFile(Entry, path, name, content) } :
             Return(r, [ NoCall EXCEPT !.op = "addFile", !.path = path,
                                       !.name = name, !.content = content,
                                       !.dst = r.ret, !.ret = r.ret # NoPath ])

NextPath ==
    \/ Resume
    \/ GetRoot
    \/ CreateFolder
    \/ CreateFile
    \/ Delete
    \/ AddFolder
    \/ AddFile

SpecPath == Init /\ [][NextPath]_vars

\* ---------------------------------- a client that builds two children
\* The client takes two parents built from the root and two names, builds
\* both children and asks for the parent of the first.

TwinParents == { << >>, getChild(<< >>, << "a" >>), getChild(<< >>, << >>) }

InitTwin ==
    /\ storage = EmptyObject
    /\ watchers = << >>
    /\ calls = << >>
    /\ pre = EmptyObject
    /\ last = NoCall
    /\ track = NoTrack
    /\ codec = IdleCodec
    /\ alias = IdleAlias
    /\ regs = NoRegs
    /\ scripts = NoScripts
    /\ trace = NoTrace
    /\ \E p1 \in TwinParents, p2 \in TwinParents, n1 \in Strings, n2 \in Strings :
          twin = [ IdleTwin EXCEPT !.pc = "start", !.p1 = p1, !.n1 = n1,
                                   !.p2 = p2, !.n2 = n2 ]

TwinGetChild ==
    /\ twin.pc = "start"
    /\ twin' = [ twin EXCEPT !.pc = "child", !.c1 = getChild(twin.p1, twin.n1),
                             !.c2 = getChild(twin.p2, twin.n2) ]
    /\ UNCHANGED << storage, watchers, calls, pre, last, track, codec, alias,
                    regs, scripts, trace >>

TwinGetParent ==
    /\ twin.pc = "child"
    /\ twin' = [ twin EXCEPT !.pc = "parent", !.parent = getParent(twin.c1) ]
    /\ UNCHANGED << storage, watchers, calls, pre, last, track, codec, alias,
                    regs, scripts, trace >>

NextTwin ==
    \/ TwinGetChild
    \/ TwinGetParent

SpecTwin == InitTwin /\ [][NextTwin]_vars

\* ------------------ a client that registers callbacks and calls handles
\* The client keeps the handle of every watch call; regs.issued[k] is the
\* callback of the k-th watch call and regs.called the handles it has
\* called. Between these calls it creates and deletes folders.

\* handle = watch(watcher)
WatchReg ==
    /\ Idle
    /\ Len(regs.issued) < MaxRegs
    /\ \E watcher \in Watchers :
          /\ watchers' = watch(watchers, watcher)
          /\ regs' = [ regs EXCEPT !.issued = Append(@, watcher) ]
          /\ last' = [ NoCall EXCEPT !.op = "watch", !.watcher = watcher,
                                     !.ret = TRUE ]
    /\ calls' = << >>
    /\ pre' = storage
    /\ UNCHANGED << storage, track, codec, alias, twin, scripts, trace >>

\* handle(), for the handle of the k-th watch call
CallHandle ==
    /\ Idle
    /\ \E k \in 1..Len(regs.issued) :
          /\ watchers' = unwatch(watchers, regs.issued[k])
          /\ regs' = [ regs EXCEPT !.called = @ \cup { k } ]
          /\ last' = [ NoCall EXCEPT !.op = "unwatch",
                                     !.watcher = regs.issued[k], !.ret = TRUE ]
    /\ calls' = << >>
    /\ pre' = storage
    /\ UNCHANGED << storage, track, codec, alias, twin, scripts, trace >>

NextWatch ==
    \/ Resume
    \/ GetRoot
    \/ CreateFolder
    \/ Delete
    \/ WatchReg
    \/ CallHandle

SpecWatch == Init /\ [][NextWatch]_vars

\* ------------ a client whose callback calls back into the file system
\* The client builds a tree by creating folders and files, registers its
\* callbacks and then makes one more call, during which the callback w1
\* runs its body once.

\* the paths the callback w1 works on: "", ".a" and ".a.a"
BodyPaths == { path \in Paths : IsPrefix(path, << ".", "a", ".", "a" >>) }

\* what the callback w1 may do: delete a path, create a file or call an
\* unregister handle
Bodies ==
    { [ Passive EXCEPT !.op = "delete", !.path = path ] : path \in BodyPaths } \cup
    { [ Passive EXCEPT !.op = "createFile", !.path = path, !.content = "y" ] :
          path \in BodyPaths \ { << >> } } \cup
    { [ Passive EXCEPT !.op = "unwatch", !.watcher = watcher ] :
          watcher \in Watchers }

\* watch(watcher), for a callback that is not yet registered; w1 is the
\* first to be registered
Hook ==
    /\ Idle
    /\ Len(watchers) < MaxHooks
    /\ \E watcher \in Watchers :
          /\ \A i \in 1..Len(watchers) : watchers[i] # watcher
          /\ watchers = << >> => watcher = "w1"
          /\ watchers' = watch(watchers, watcher)
          /\ \E body \in IF watcher = "w1" THEN Bodies ELSE { Passive } :
                scripts' = [ hooked |-> TRUE,
                             of |-> [ scripts.of EXCEPT ![watcher] = body ] ]
    /\ UNCHANGED << storage, calls, pre, last, track, codec, alias, twin, regs,
                    trace >>

ResumeBuilding == ~scripts.hooked /\ Resume
HookedDelete == scripts.hooked /\ Delete
HookedCopy == scripts.hooked /\ Copy
HookedMove == scripts.hooked /\ Move
HookedSetData == scripts.hooked /\ SetData

NextReentry ==
    \/ ResumeBuilding
    \/ GetRoot
    \/ CreateFolder
    \/ CreateFile
    \/ Hook
    \/ HookedDelete
    \/ HookedCopy
    \/ HookedMove
    \/ HookedSetData

SpecReentry == Init /\ [][NextReentry]_vars

\* ------------------------------------------------- what a caller can see

\* the file system on return of the last call, and on its entry
Now == [ storage |-> storage, calls |-> calls ]
Before == [ storage |-> pre, calls |-> << >> ]

\* every path a client holds or a node lives at
AllPaths == Paths \cup StoredPaths(storage) \cup StoredPaths(pre)

\* what the queries report of a path
View(m, path) ==
    [ exists |-> exists(m, path), isFolder |-> isFolder(m, path),
      isFile |-> isFile(m, path), data |-> getData(m, path) ]

\* the relative paths of the nodes at and below base
Below(m, base) ==
    { sliceFrom(q, Len(base)) :
        q \in { q \in StoredPaths(m.storage) : Within(q, base) } }

\* the subtree at p1 in m1 shows what the subtree at p2 in m2 shows
SameSubtree(m1, p1, m2, p2) ==
    \A r \in Below(m1, p1) \cup Below(m2, p2) :
        View(m1, p1 \o r) = View(m2, p2 \o r)

Mutations == { "createFolder", "createFile", "delete", "copy", "move",
               "rename", "setData" }

\* the destination of the last move or rename
Target ==
    IF last.op = "rename" THEN getChild(getParent(last.path), last.name)
    ELSE last.dst

\* the proper ancestors of a path, up to the root
RECURSIVE Ancestors(_)
Ancestors(path) ==
    LET parent == getParent(path)
    IN IF parent = NoPath THEN {} ELSE { parent } \cup Ancestors(parent)

\* ------------------------------------------------------------ the claims

\* C1: decode(encode(x)) = x for every name x, and so
\* getName(getChild(p, x)) = x for every path p.
C1_RoundTrip ==
    /\ codec.pc \in { "decoded", "child", "named" } => codec.back = codec.text
    /\ codec.pc = "named" => codec.name = codec.text

\* C2: every proper ancestor of an existing path exists and is a folder.
C2_AncestorsAreFolders ==
    \A p \in AllPaths :
        exists(Now, p) => \A q \in Ancestors(p) : isFolder(Now, q)

\* C3: a move that returned true left no node at src, and dst shows the
\* subtree that src showed on entry.
C3_MoveKeepsSubtree ==
    (last.op = "move" /\ last.ret) =>
        /\ ~exists(Now, last.path)
        /\ exists(Now, last.dst)
        /\ SameSubtree(Now, last.dst, Before, last.path)

\* C4: move returns false exactly when src is absent, dst exists, or src is
\* a folder and dst is src or a path below src.
C4_MoveFailsOnlyWhen ==
    last.op = "move" =>
        (~last.ret <=>
            \/ ~exists(Before, last.path)
            \/ exists(Before, last.dst)
            \/ isFolder(Before, last.path) /\ Within(last.dst, last.path))

\* C5: rename(p, n) returns true exactly when p is not the root, p exists
\* and no node is at the sibling path; then the sibling path shows p's
\* former subtree and p is gone.
C5_RenameIff ==
    last.op = "rename" =>
        IF last.path = << >> THEN ~last.ret
        ELSE /\ last.ret <=> (exists(Before, last.path) /\ ~exists(Before, Target))
             /\ last.ret => /\ SameSubtree(Now, Target, Before, last.path)
                            /\ ~exists(Now, last.path)

\* C6: moving a folder to itself or to a path below itself returns false,
\* leaves the storage (so every path's existence, type, content and
\* children) as it was and invokes no watcher.
C6_MoveIntoOwnSubtree ==
    (last.op = "move" /\ isFolder(Before, last.path)
                      /\ Within(last.dst, last.path)) =>
        /\ ~last.ret
        /\ storage = pre
        /\ calls = << >>

C6_Witness ==
    /\ last.op = "move"
    /\ isFolder(Before, last.path)
    /\ last.path # << >>
    /\ Within(last.dst, last.path)
    /\ last.dst # last.path
    /\ watchers # << >>

\* C7: a mutating call that returned false left the storage (so every
\* path's existence, type, content and children) as it was and invoked no
\* watcher (the claim exempts a move whose copy step succeeded; no such
\* move returns false, so none is exempted here).
C7_FailureChangesNothing ==
    (last.op \in Mutations /\ ~last.ret) =>
        /\ storage = pre
        /\ calls = << >>

C7_Witness ==
    /\ last.op = "createFile"
    /\ ~last.ret
    /\ isFile(Before, last.path)
    /\ getData(Before, last.path) # Scalar(last.content)
    /\ watchers # << >>

\* C8: copy returns false exactly when src is absent or dst exists;
\* otherwise dst shows, path by path, the subtree that src showed on entry.
C8_CopyDeepClone ==
    last.op = "copy" =>
        /\ ~last.ret <=> (~exists(Before, last.path) \/ exists(Before, last.dst))
        /\ last.ret => SameSubtree(Now, last.dst, Before, last.path)

\* C9: after a copy that returned true, delete(src) leaves no node at src,
\* and after it and after any setData or delete at or below src, dst still
\* exists and shows the subtree that src showed before the copy.
C9_CopySurvivesSource ==
    (track.on /\ last.op \in { "delete", "setData" }) =>
        /\ (last.op = "delete" /\ last.path = track.src /\ last.ret)
              => ~exists(Now, track.src)
        /\ exists(Now, track.dst)
        /\ SameSubtree(Now, track.dst,
                       [ storage |-> track.snap, calls |-> << >> ], track.src)

\* C10: delete(p) returns true exactly when p exists; then nothing exists at
\* or below p, and every other path shows what it showed on entry.
C10_Delete ==
    last.op = "delete" =>
        /\ last.ret <=> exists(Before, last.path)
        /\ last.ret =>
              \A q \in AllPaths :
                  IF Within(q, last.path) THEN ~exists(Now, q)
                  ELSE View(Now, q) = View(Before, q)

C10_Witness ==
    /\ last.op = "delete"
    /\ last.ret
    /\ \E q \in AllPaths :
          q # last.path /\ Within(q, last.path) /\ exists(Before, q)
    /\ \E q \in AllPaths :
          /\ ~Within(q, last.path)
          /\ ~Within(last.path, q)
          /\ isFile(Now, q)

\* C11: createFolder(p) returns true exactly when no node is at p on entry;
\* after a true return p exists, is a folder, is no file and has no children.
C11_CreateFolder ==
    last.op = "createFolder" =>
        /\ last.ret <=> ~exists(Before, last.path)
        /\ last.ret => /\ exists(Now, last.path)
                       /\ isFolder(Now, last.path)
                       /\ ~isFile(Now, last.path)
                       /\ getChildren(Now, last.path) = << >>

C11_Witness ==
    /\ last.op = "createFolder"
    /\ last.ret
    /\ truthy(getParent(last.path))
    /\ ~exists(Before, getParent(last.path))
    /\ isFolder(Now, getParent(last.path))

\* the last call was a successful setData, delete, move or rename at p or
\* at a path above p
Affects(p) ==
    /\ last.op \in { "setData", "delete", "move", "rename" }
    /\ last.ret
    /\ Within(p, last.path)

\* C12: createFile(p, v) returns true exactly when no node is at p on entry;
\* after a true return p is a file, is no folder and getData(p) = v; and
\* the data of a file changes with no call but a successful setData,
\* delete, move or rename that affects it.
C12_CreateFile ==
    /\ last.op = "createFile" =>
          /\ last.ret <=> ~exists(Before, last.path)
          /\ last.ret => /\ isFile(Now, last.path)
                         /\ ~isFolder(Now, last.path)
                         /\ getData(Now, last.path) = Scalar(last.content)
    /\ storage # pre =>
          \A p \in StoredPaths(pre) :
              (isFile(Before, p) /\ ~Affects(p)) =>
                  getData(Now, p) = getData(Before, p)

C12_Witness ==
    /\ last.op = "createFile"
    /\ last.ret
    /\ truthy(getParent(last.path))
    /\ ~exists(Before, getParent(last.path))
    /\ \E p \in StoredPaths(pre) :
          /\ isFile(Before, p)
          /\ getData(Now, p) # Scalar(last.content)

\* C13: getData returns a copy of the stored content: after the client
\* changed the object it got, getData of the same path shows what it showed
\* before.
C13_GetDataIsCopy ==
    alias.pc = "again" => alias.second = alias.first

\* one invocation per registered watcher, in order, each with path
Notified(path) ==
    [ i \in 1..Len(watchers) |-> [ watcher |-> watchers[i], path |-> path ] ]

\* C14: setData(p, v) returns true exactly when p is a file; then
\* getData(p) = v, p is still a file, every other path shows what it showed
\* on entry and every registered watcher was invoked once, with p; a false
\* return changes nothing and invokes no watcher.
C14_SetData ==
    last.op = "setData" =>
        /\ last.ret <=> isFile(Before, last.path)
        /\ last.ret =>
              /\ getData(Now, last.path) = Scalar(last.content)
              /\ isFile(Now, last.path)
              /\ \A q \in AllPaths \ { last.path } : View(Now, q) = View(Before, q)
              /\ calls = Notified(last.path)
        /\ ~last.ret => storage = pre /\ calls = << >>

\* C15: after getRoot() returned, the root exists and is a folder; a
\* getRoot() that found the root existing changed nothing and invoked no
\* watcher.
C15_GetRoot ==
    last.op = "getRoot" =>
        /\ exists(Now, << >>)
        /\ isFolder(Now, << >>)
        /\ exists(Before, << >>) => (storage = pre /\ calls = << >>)

\* the elements of a list
Range(list) == { list[i] : i \in 1..Len(list) }

\* C16: getChildren(p) is undefined exactly when p is no folder; for a
\* folder p it lists, each once, exactly the existing paths whose parent is
\* p (looked at after every call that changed the storage).
C16_GetChildren ==
    storage # pre =>
        \A p \in AllPaths :
            LET children == getChildren(Now, p)
            IN /\ children = NoChildren <=> ~isFolder(Now, p)
               /\ isFolder(Now, p) =>
                     /\ Cardinality(Range(children)) = Len(children)
                     /\ Range(children) =
                           { c \in AllPaths \cup Range(children) :
                               getParent(c) = p /\ exists(Now, c) }

C16_Witness ==
    /\ last.op = "move"
    /\ last.ret
    /\ getParent(last.path) = << >>
    /\ truthy(getParent(last.dst))
    /\ isFolder(Now, << >>)
    /\ last.path \in Range(getChildren(Before, << >>))
    /\ last.path \notin Range(getChildren(Now, << >>))
    /\ Len(getChildren(Now, << >>)) = 1
    /\ getChildren(Now, getParent(last.dst)) = << last.dst >>

\* C17: addFolder and addFile on a path that is no folder return undefined
\* and create no node.
C17_AddNeedsFolder ==
    (last.op \in { "addFolder", "addFile" } /\ ~isFolder(Before, last.path)) =>
        /\ last.dst = NoPath
        /\ StoredPaths(storage) = StoredPaths(pre)

\* C18: two children are the same path only if their parents and their
\* names are the same; a child is never its own parent's path; and the
\* parent of getChild(p, n) is p.
C18_UniqueNode ==
    /\ twin.pc \in { "child", "parent" } =>
          /\ twin.c1 = twin.c2 => (twin.p1 = twin.p2 /\ twin.n1 = twin.n2)
          /\ twin.c1 # twin.p1
    /\ twin.pc = "parent" => twin.parent = twin.p1

C18_Witness ==
    /\ twin.pc = "parent"
    /\ twin.n1 = << ".", "a" >>
    /\ twin.p1 = << >>
    /\ twin.n2 = << "a" >>
    /\ twin.p2 = getChild(<< >>, << >>)
    /\ twin.c1 # twin.c2

\* C19: a delete(p) that returned true invoked every registered watcher
\* once, with p, and no watcher with any other path.
C19_DeleteNotifiesOnce ==
    (last.op = "delete" /\ last.ret) => calls = Notified(last.path)

C19_Witness ==
    /\ last.op = "delete"
    /\ last.ret
    /\ watchers # << >>
    /\ calls # << >>
    /\ \E q \in StoredPaths(pre) : q # last.path /\ Within(q, last.path)

\* C20: a createFolder or createFile that returned true invoked every
\* registered watcher once, also when it created missing ancestors.
C20_CreateNotifiesOnce ==
    (last.op \in { "createFolder", "createFile" } /\ last.ret) =>
        Len(calls) = Len(watchers)

\* C21: a move or rename that returned true invoked every registered
\* watcher twice, first with the new path and then with the old path, and
\* no watcher with any other path.
C21_MoveNotifiesTwice ==
    (last.op \in { "move", "rename" } /\ last.ret) =>
        calls = Notified(Target) \o Notified(last.path)

C21_Witness ==
    /\ last.op = "rename"
    /\ last.ret
    /\ watchers # << >>
    /\ Len(calls) = 2 * Len(watchers)
    /\ isFolder(Now, Target)

\* C25: across a call no path that was a folder is a file and no path that
\* was a file is a folder.
C25_NoTypeSwap ==
    storage # pre =>
        \A p \in AllPaths :
            /\ ~(isFolder(Before, p) /\ isFile(Now, p))
            /\ ~(isFile(Before, p) /\ isFolder(Now, p))

C25_Witness ==
    /\ last.op = "copy"
    /\ ~last.ret
    /\ isFolder(Before, last.path)
    /\ isFile(Before, last.dst)
    /\ isFile(Now, last.dst)

\* C26: a path exists exactly when it is either a folder or a file.
C26_ExistsIffTyped ==
    \A p \in AllPaths :
        exists(Now, p) <=> (isFolder(Now, p) # isFile(Now, p))

\* the callbacks of the watch calls whose handle has not been called, from
\* the k-th watch call on
RECURSIVE StillRegistered(_)
StillRegistered(k) ==
    IF k > Len(regs.issued) THEN << >>
    ELSE (IF k \in regs.called THEN << >> ELSE << regs.issued[k] >>)
             \o StillRegistered(k + 1)

\* C29: a handle removes only the registration made by its own watch call,
\* and a second call of the same handle changes nothing, also when one
\* callback is registered more than once: the watcher list is always the
\* list of the registrations whose handle has not been called.
C29_HandleRemovesOwn ==
    watchers = StillRegistered(1)

\* the callbacks invoked for the i-th write of the last call, in the order
\* of their invocation, when no callback has changed the watcher list
InvokedFor(i) ==
    LET n == Len(calls) \div Len(trace.writes)
    IN [ k \in 1..n |-> calls[(i - 1) * n + k].watcher ]

\* how often a callback is in a list
Count(list, watcher) == Cardinality({ k \in 1..Len(list) : list[k] = watcher })

\* C22: once the handle of a watch call has been called, that registration
\* is not invoked by a later mutation, and every registration whose handle
\* has not been called is invoked for every write of a successful mutation:
\* each callback is invoked once for each of its registrations whose
\* handle has not been called.
C22_OnlyUnwatchedStops ==
    \A i \in 1..Len(trace.writes) :
        \A watcher \in Watchers :
            Count(InvokedFor(i), watcher) = Count(StillRegistered(1), watcher)

\* C23: for every successful mutation the registered watchers are invoked
\* in the order of their registration, also after other watchers have been
\* unregistered: when the invoked callbacks are those of the registrations
\* whose handle has not been called, they are invoked in that order.
C23_RegistrationOrder ==
    \A i \in 1..Len(trace.writes) :
        (\A watcher \in Watchers :
            Count(InvokedFor(i), watcher) = Count(StillRegistered(1), watcher))
        => InvokedFor(i) = StillRegistered(1)

\* C27: also when a callback re-enters the file system during a
\* createFolder or createFile call, a create call that returns true has
\* not overwritten a node: no node was at the target path when the call
\* wrote it.
C27_CreateNeverOverwrites ==
    (last.op \in { "createFolder", "createFile" } /\ last.ret) =>
        \A i \in 1..Len(trace.writes) :
            (trace.writes[i].depth = 0 /\ trace.writes[i].path = last.path)
                => ~trace.writes[i].over

\* C28: unregistering from inside a callback never makes another watcher
\* miss the current mutation: every watcher that is still registered when
\* the call returns has been invoked for every write of the call.
C28_UnwatchSkipsNobody ==
    \A i \in 1..Len(trace.writes) :
        \A k \in 1..Len(watchers) :
            \E j \in 1..Len(calls) :
                calls[j].watcher = watchers[k] /\ trace.seen[j].write = i

\* the last call was a move whose copy step wrote dst and whose delete
\* step failed
DeleteStepFailed ==
    /\ last.op = "move"
    /\ ~last.ret
    /\ trace.writes # << >>

\* C24 as stated: when the copy step of a move succeeds and the delete step
\* fails, move returns false and both src and dst exist on return.
C24_BothPersist ==
    DeleteStepFailed => exists(Now, last.path) /\ exists(Now, last.dst)

\* C24, amended: when the copy step of a move succeeds and the delete step
\* fails, move returns false, no node is at src on return, and move has
\* made no write after the copy's, so the copy is not rolled back.
C24_CopyNotRolledBack ==
    DeleteStepFailed =>
        /\ ~exists(Now, last.path)
        /\ trace.writes[1].depth = 0 /\ trace.writes[1].path = last.dst
        /\ \A i \in 2..Len(trace.writes) : trace.writes[i].depth > 0

C24_Witness ==
    /\ DeleteStepFailed
    /\ exists(Now, last.dst)
    /\ exists(Before, last.path)

\* the j-th invocation of the last call belongs to a write of the call
\* itself, not to a write made by a callback
OwnWrite(j) == trace.writes[trace.seen[j].write].depth = 0

\* no callback has changed the store between the write and the j-th
\* invocation
Undisturbed(j) ==
    trace.seen[j].storage = trace.writes[trace.seen[j].write].after

\* what the claim says the callback of the j-th invocation finds
WriteApplied(j) ==
    LET found == trace.seen[j]
        p == calls[j].path
    IN /\ last.op \in { "createFolder", "createFile", "copy", "setData" }
            => exists(found, p)
       /\ (last.op \in { "createFile", "setData" } /\ p = last.path)
            => getData(found, p) = Scalar(last.content)
       /\ (last.op = "copy" /\ isFile(Before, last.path))
            => getData(found, p) = getData(Before, last.path)
       /\ last.op = "delete" => ~exists(found, p)
       /\ (last.op = "move" /\ found.write = 1)
            => exists(found, last.path) /\ exists(found, last.dst)

\* C30 as stated: whenever a watcher is invoked with path p, the write for
\* p has been applied: after a create, copy or setData p exists and shows
\* the new content, after a delete p does not exist, and in the first
\* notification of a move both src and dst exist.
C30_WriteApplied ==
    \A j \in 1..Len(calls) : OwnWrite(j) => WriteApplied(j)

\* C30, amended: the same, for every invocation before which no callback
\* has changed the store since the write for p.
C30_WriteAppliedUndisturbed ==
    \A j \in 1..Len(calls) : (OwnWrite(j) /\ Undisturbed(j)) => WriteApplied(j)

C30_Witness ==
    /\ last.op = "move"
    /\ last.ret
    /\ Len(calls) = 4
    /\ calls[2].watcher = "w2"
    /\ \A j \in 1..Len(calls) : OwnWrite(j) /\ Undisturbed(j)

====
